---- MODULE Spec2Model ----
(***************************************************************************)
(* PermutationImportance: the sequential selection engine                  *)
(* (src/src/sequential_selection.py) and the contingency-table skill       *)
(* scores (src/src/metrics.py).                                            *)
(*                                                                         *)
(* Conventions.  Python lists are sequences; variable (column) indices are *)
(* 0-based as in the code, so the name of variable v is                    *)
(* variable_names[v + 1].  A Python dict is a sequence of <<key, value>>   *)
(* pairs in insertion order (assigning to an existing key keeps its        *)
(* position and replaces its value).  An optional argument is <<>> for     *)
(* None and <<x>> for the value x.                                         *)
(***************************************************************************)
EXTENDS Integers, Sequences, FiniteSets, TLC

\* ------------------------------------------------------------------------
\* Bounds of the model
\* ------------------------------------------------------------------------

\* Largest number of data columns (variables) enumerated exhaustively.
MaxVars == 2

\* Names a caller may put in variable_names.
Names == {"A", "B", "C"}

\* The three-variable run of the specification's example.
ExampleNames == <<"A", "B", "C">>

\* Values a scoring callback may return (tenths: 5 stands for 0.5).
Scores == {5, 7, 9}

\* ------------------------------------------------------------------------
\* Helpers on sequences and dicts
\* ------------------------------------------------------------------------

None == <<>>

Some(x) == <<x>>

SeqsUpTo(S, n) == UNION {[1..k -> S] : k \in 0..n}

RemoveAt(s, i) == [k \in 1..(Len(s) - 1) |-> IF k < i THEN s[k] ELSE s[k + 1]]

NoDuplicates(s) == \A i, j \in 1..Len(s) : s[i] = s[j] => i = j

DictHas(d, key) == \E i \in 1..Len(d) : d[i][1] = key

DictGet(d, key) == d[CHOOSE i \in 1..Len(d) : d[i][1] = key][2]

\* d[key] = value
DictSet(d, key, value) ==
    IF DictHas(d, key)
    THEN [i \in 1..Len(d) |-> IF d[i][1] = key THEN <<key, value>> ELSE d[i]]
    ELSE Append(d, <<key, value>>)

\* ------------------------------------------------------------------------
\* Collaborators of the engine
\* ------------------------------------------------------------------------

\* np.arange(ncols): the column indices, written as their decimal strings
\* (names are only ever compared for equality).
ColumnNames(ncols) == [i \in 1..ncols |-> ToString(i - 1)]

\* determine_variable_names(training_data, variable_names)
determine_variable_names(ncols, names_arg) ==
    IF names_arg = None THEN ColumnNames(ncols) ELSE names_arg[1]

\* verify_scoring_strategy: the registry names resolve to np.argmax/np.argmin.
VALID_SCORING_STRATEGIES == {"argmax", "argmin"}

\* np.argmax / np.argmin over a list of scores: the FIRST index of the
\* optimum (1-based position in the list).
ApplyScoringStrategy(strategy, scores) ==
    CHOOSE i \in 1..Len(scores) :
        /\ \A j \in 1..Len(scores) :
              IF strategy = "argmax" THEN scores[j] <= scores[i]
                                     ELSE scores[j] >= scores[i]
        /\ \A j \in 1..(i - 1) : scores[j] # scores[i]

\* sfs_strategy(num_vars, important_vars): one (candidate, columns) pair per
\* variable not yet important, in ascending index order.
RECURSIVE sfs_from(_, _, _)
sfs_from(i, n, important) ==
    IF i >= n THEN <<>>
    ELSE IF \E k \in 1..Len(important) : important[k] = i
         THEN sfs_from(i + 1, n, important)
         ELSE <<<<i, important \o <<i>>>>>> \o sfs_from(i + 1, n, important)

sfs_strategy(n, important) == sfs_from(0, n, important)

\* convert_result_list_to_dict(result, variable_names, scoring_strategy):
\* repeatedly pops the entry the scoring strategy picks and stores
\* name -> (rank, score); an empty list gives an empty dict.
RECURSIVE RankInto(_, _, _, _, _)
RankInto(res, names, strategy, rank, d) ==
    IF Len(res) = 0 THEN d
    ELSE LET idx == ApplyScoringStrategy(strategy, [k \in 1..Len(res) |-> res[k][2]])
             var == res[idx][1]
         IN RankInto(RemoveAt(res, idx), names, strategy, rank + 1,
                     DictSet(d, names[var + 1], <<rank, res[idx][2]>>))

convert_result_list_to_dict(res, names, strategy) ==
    RankInto(res, names, strategy, 0, <<>>)

\* ImportanceResult.add_new_results(next_result, next_important_variable)
add_new_results(ledger, next_result, best) ==
    Append(ledger, [results |-> next_result, next_important_variable |-> best])

\* The important-variable sequence the ImportanceResult exposes.
ImportantNames(ledger) == [r \in 1..Len(ledger) |-> ledger[r].next_important_variable]

\* ------------------------------------------------------------------------
\* metrics.py: arrays, tables and exact arithmetic
\* ------------------------------------------------------------------------

\* Largest number of samples enumerated exhaustively.
MaxSamples == 2

\* Labels of deterministic truths and predictions, and of classes.
Labels == {0, 1, 2}

\* Class-axis widths of two-dimensional (probabilistic) arrays.
Widths == {1, 2}

\* Entries of a probabilistic row.
Probs == {0, 1}

\* Largest cell of a table given directly to a score.
MaxCell == 3

\* Largest table size given directly to a score.
MaxK == 3

\* A one-dimensional array of labels / a two-dimensional array of rows.
Arr1(data) == [dim |-> 1, width |-> 0, data |-> data]

Arr2(w, rows) == [dim |-> 2, width |-> w, data |-> rows]

\* np.argmax of one row: the first index (0-based) of the greatest entry.
ArgMax(row) ==
    (CHOOSE i \in 1..Len(row) :
        /\ \A j \in 1..Len(row) : row[j] <= row[i]
        /\ \A j \in 1..(i - 1) : row[j] < row[i]) - 1

\* np.argmax(a, axis=1)
ArgMaxRows(a) == [s \in 1..Len(a.data) |-> ArgMax(a.data[s])]

\* np.unique of a collection of labels: ascending, without repeats.
RECURSIVE SortedSeq(_)
SortedSeq(S) ==
    IF S = {} THEN <<>>
    ELSE LET lo == CHOOSE x \in S : \A y \in S : x <= y
         IN <<lo>> \o SortedSeq(S \ {lo})

\* A float32 cell holding a count: exact up to 2^24, beyond that rounded to
\* the nearest multiple of 2 (ties to the even mantissa).
Float32(n) ==
    IF n <= 16777216 THEN n
    ELSE IF n % 2 = 0 THEN n
    ELSE IF (n + 1) % 4 = 0 THEN n + 1 ELSE n - 1

\* np.zeros((k, k))
Zeros(k) == [i \in 1..k |-> [j \in 1..k |-> 0]]

\* table[pred, true] += 1
Tally(table, pred, true) ==
    [table EXCEPT ![pred + 1][true + 1] = Float32(@ + 1)]

\* table[true, pred] += 1: rows and columns exchanged.
RECURSIVE ProbTable_transposed(_, _, _, _)
ProbTable_transposed(table, trues, preds, s) ==
    IF s > Len(trues) \/ s > Len(preds) THEN table
    ELSE ProbTable_transposed(Tally(table, trues[s], preds[s]), trues, preds, s + 1)

\* for true, pred in zip(trues, preds): table[pred, true] += 1
RECURSIVE ProbTable(_, _, _, _)
ProbTable(table, trues, preds, s) ==
    IF s > Len(trues) \/ s > Len(preds) THEN table
    ELSE ProbTable(Tally(table, preds[s], trues[s]), trues, preds, s + 1)

\* [p == c1 or t == c2 for p, t in zip(preds, truths)].count(True)
RECURSIVE CountMatches_or(_, _, _, _, _)
CountMatches_or(preds, truths, c1, c2, s) ==
    IF s > Len(preds) \/ s > Len(truths) THEN 0
    ELSE (IF preds[s] = c1 \/ truths[s] = c2 THEN 1 ELSE 0)
           + CountMatches_or(preds, truths, c1, c2, s + 1)

\* [p == c1 and t == c2 for p, t in zip(preds, truths)].count(True)
RECURSIVE CountMatches(_, _, _, _, _)
CountMatches(preds, truths, c1, c2, s) ==
    IF s > Len(preds) \/ s > Len(truths) THEN 0
    ELSE (IF preds[s] = c1 /\ truths[s] = c2 THEN 1 ELSE 0)
           + CountMatches(preds, truths, c1, c2, s + 1)

\* for i, c1 in enumerate(classes): for j, c2 in enumerate(classes):
\*     table[i, j] = ...count(True)
DetTable(preds, truths, cls) ==
    [i \in 1..Len(cls) |->
        [j \in 1..Len(cls) |-> Float32(CountMatches(preds, truths, cls[i], cls[j], 1))]]

Raised(e) == [outcome |-> e, table |-> <<>>]

Returned(t) == [outcome |-> "table", table |-> t]

\* From "Truths and predictions are now both deterministic" on.
DeterministicTable(truths, preds, classes) ==
    LET cls == IF classes = None
               THEN SortedSeq({truths.data[s] : s \in 1..Len(truths.data)}
                                \cup {preds[s] : s \in 1..Len(preds)})
               ELSE classes[1]
    IN Returned(DetTable(preds, truths.data, cls))

\* np.take(classes, np.argmax(predictions, axis=1))
TakeClasses(classes, predictions) ==
    [s \in 1..Len(predictions.data) |-> classes[1][ArgMaxRows(predictions)[s] + 1]]

\* The branches of _get_contingency_table below its length check.
TableByShape(truths, predictions, classes) ==
    IF truths.dim = 2
    THEN IF predictions.dim # 2 \/ predictions.width # truths.width
         THEN Raised("UnmatchingProbabilisticForecasts")
         ELSE Returned(ProbTable(Zeros(truths.width), ArgMaxRows(truths),
                                 ArgMaxRows(predictions), 1))
    ELSE IF predictions.dim = 2
         THEN IF classes = None
              THEN Raised("AmbiguousProbabilisticForecasts")
              ELSE IF \E s \in 1..Len(predictions.data) :
                         ArgMaxRows(predictions)[s] >= Len(classes[1])
                   THEN Raised("IndexError")
                   ELSE DeterministicTable(truths, TakeClasses(classes, predictions),
                                           classes)
         ELSE DeterministicTable(truths, predictions.data, classes)

\* The length check made after the shape checks instead of before them.
get_contingency_table_late_check(truths, predictions, classes) ==
    LET r == TableByShape(truths, predictions, classes)
    IN IF r.outcome # "table" THEN r
       ELSE IF Len(truths.data) # Len(predictions.data)
            THEN Raised("UnmatchedLengthPredictions")
            ELSE r

\* _get_contingency_table(truths, predictions, classes)
get_contingency_table(truths, predictions, classes) ==
    IF Len(truths.data) # Len(predictions.data)
    THEN Raised("UnmatchedLengthPredictions")
    ELSE TableByShape(truths, predictions, classes)

\* ---- exact arithmetic ---------------------------------------------------
\* A score is an exact rational [kind |-> "value", num, den] (den > 0, in
\* lowest terms), or "nonfinite" where numpy divides by zero (inf or nan),
\* or "ZeroDivisionError" where a Python float division by zero raises.

RECURSIVE GCD(_, _)
GCD(a, b) == IF b = 0 THEN a ELSE GCD(b, a % b)

Abs(x) == IF x < 0 THEN -x ELSE x

RVal(n, d) ==
    LET g == GCD(Abs(n), Abs(d))
        sgn == IF d < 0 THEN -1 ELSE 1
    IN [kind |-> "value", num |-> sgn * (n \div g), den |-> sgn * (d \div g)]

RInt(n) == [kind |-> "value", num |-> n, den |-> 1]

NonFinite == [kind |-> "nonfinite", num |-> 0, den |-> 1]

ZeroDivisionError == [kind |-> "ZeroDivisionError", num |-> 0, den |-> 1]

IsVal(x) == x.kind = "value"

\* Sums go over the least common denominator and products cancel across,
\* which keeps the intermediate integers small.
RAdd(x, y) ==
    IF ~IsVal(x) THEN x ELSE IF ~IsVal(y) THEN y
    ELSE LET g == GCD(x.den, y.den)
         IN RVal(x.num * (y.den \div g) + y.num * (x.den \div g),
                 (x.den \div g) * y.den)

RNeg(x) == IF ~IsVal(x) THEN x ELSE [x EXCEPT !.num = -x.num]

RSub(x, y) == IF ~IsVal(x) THEN x ELSE RAdd(x, RNeg(y))

RMul(x, y) ==
    IF ~IsVal(x) THEN x ELSE IF ~IsVal(y) THEN y
    ELSE LET a == RVal(x.num, y.den)
             b == RVal(y.num, x.den)
         IN RVal(a.num * b.num, a.den * b.den)

RInv(x) == IF ~IsVal(x) THEN x ELSE RVal(x.den, x.num)

\* A numpy division: by zero it gives inf or nan.
RDiv(x, y) ==
    IF ~IsVal(x) THEN x ELSE IF ~IsVal(y) THEN y
    ELSE IF y.num = 0 THEN NonFinite
    ELSE RMul(x, RInv(y))

REq(x, y) == IsVal(x) /\ IsVal(y) /\ x.num = y.num /\ x.den = y.den

RECURSIVE RSum(_)
RSum(s) == IF s = <<>> THEN RInt(0) ELSE RAdd(Head(s), RSum(Tail(s)))

RECURSIVE ISum(_)
ISum(s) == IF s = <<>> THEN 0 ELSE Head(s) + ISum(Tail(s))

\* table.sum()
TableSum(t) == ISum([i \in 1..Len(t) |-> ISum(t[i])])

\* table.sum(axis=1): one total per row (predicted class)
SumAxis1(t) == [i \in 1..Len(t) |-> ISum(t[i])]

\* table.sum(axis=0): one total per column (observed class)
SumAxis0(t) == [j \in 1..Len(t) |-> ISum([i \in 1..Len(t) |-> t[i][j]])]

\* table.trace()
Trace(t) == ISum([i \in 1..Len(t) |-> t[i][i]])

\* (x * y).sum()
Dot(x, y) == ISum([i \in 1..Len(x) |-> x[i] * y[i]])

\* The numerator's parentheses lost: correct/n - (E / n^2) / (1 - O / n^2).
peirce_skill_score_unparenthesized(table) ==
    LET n == TableSum(table)
        nf == SumAxis1(table)
        no == SumAxis0(table)
        correct == Trace(table)
    IN IF n = 0 THEN ZeroDivisionError
       ELSE RSub(RVal(correct, n),
                 RDiv(RVal(Dot(nf, no), n * n),
                      RSub(RInt(1), RVal(Dot(no, no), n * n))))

\* _peirce_skill_score(table)
peirce_skill_score(table) ==
    LET n == TableSum(table)
        nf == SumAxis1(table)
        no == SumAxis0(table)
        correct == Trace(table)
    IN IF n = 0 THEN ZeroDivisionError
       ELSE RDiv(RSub(RVal(correct, n), RVal(Dot(nf, no), n * n)),
                 RSub(RInt(1), RVal(Dot(no, no), n * n)))

\* _heidke_skill_score(table)
heidke_skill_score(table) ==
    LET n == TableSum(table)
        nf == SumAxis1(table)
        no == SumAxis0(table)
        correct == Trace(table)
    IN IF n = 0 THEN ZeroDivisionError
       ELSE RDiv(RSub(RVal(correct, n), RVal(Dot(nf, no), n * n)),
                 RSub(RInt(1), RVal(Dot(nf, no), n * n)))

\* p_o = table.sum(axis=0) / n
GerrityPo(table) ==
    LET n == TableSum(table)
        no == SumAxis0(table)
    IN [j \in 1..Len(table) |-> RDiv(RInt(no[j]), RInt(n))]

\* p_sum = np.cumsum(p_o)[:-1];  a = (1.0 - p_sum) / p_sum
GerrityA(table) ==
    LET p_o == GerrityPo(table)
        p_sum == [m \in 1..(Len(table) - 1) |-> RSum(SubSeq(p_o, 1, m))]
    IN [m \in 1..(Len(table) - 1) |-> RDiv(RSub(RInt(1), p_sum[m]), p_sum[m])]

\* np.sum(1.0 / a[lo:hi]) and np.sum(a[lo:hi]), 0-based half-open slices
SumInvA(a, lo, hi) == RSum([m \in 1..(hi - lo) |-> RDiv(RInt(1), a[lo + m])])

SumA(a, lo, hi) == RSum([m \in 1..(hi - lo) |-> a[lo + m]])

\* The (j - i) term dropped from the off-diagonal weights.
GerrityS_no_distance(a, k, i, j) ==
    LET lo == IF i <= j THEN i ELSE j
        hi == IF i <= j THEN j ELSE i
    IN RMul(RVal(1, k - 1), RAdd(SumInvA(a, 0, lo), SumA(a, hi, k - 1)))

\* s[i, j] (0-based i, j); s[i, j] = s[j, i] below the diagonal.
GerrityS(a, k, i, j) ==
    LET lo == IF i <= j THEN i ELSE j
        hi == IF i <= j THEN j ELSE i
    IN IF lo = hi
       THEN RMul(RVal(1, k - 1), RAdd(SumInvA(a, 0, hi), SumA(a, hi, k - 1)))
       ELSE RMul(RVal(1, k - 1),
                 RAdd(RSub(SumInvA(a, 0, lo), RInt(hi - lo)), SumA(a, hi, k - 1)))

\* _gerrity_score(table): k = 0 sums nothing; k = 1 raises at 1.0 / (k - 1.0).
gerrity_score_of(table) ==
    LET k == Len(table)
        n == TableSum(table)
        a == GerrityA(table)
    IN IF k = 0 THEN RInt(0)
       ELSE IF k = 1 THEN ZeroDivisionError
       ELSE RSum([c \in 1..(k * k) |->
                    LET i == (c - 1) \div k
                        j == (c - 1) % k
                    IN RMul(RDiv(RInt(table[i + 1][j + 1]), RInt(n)),
                            GerrityS(a, k, i, j))])

\* ------------------------------------------------------------------------
\* sequential_selection
\* ------------------------------------------------------------------------

VARIABLES
    variable_names,      \* resolved names, fixed for the run
    nimportant_vars,     \* resolved number of rounds
    scoring_strategy,    \* resolved strategy
    result_obj,          \* the ImportanceResult ledger
    important_vars,      \* indices committed so far
    round,               \* iterations of the for loop completed
    selection_iterator,  \* candidates of the round not yet scored
    in_call,             \* <<>> or <<var>>: the scoring call in flight
    result,              \* (var, score) pairs collected in the round
    pc,                  \* "Loop" | "RoundRunning" | "Done" | "Failed"
    error,               \* "none" | "scoring_fn" | "ValueError"
    \* a call of one of the metrics functions
    truths,              \* the truths argument
    predictions,         \* the predictions argument
    classes,             \* the classes argument, None when not given
    called,              \* "" before the call, then the function called
    outcome,             \* "pending" | "table" | the exception raised
    table,               \* the contingency table, <<>> when none was made
    peirce,              \* None or the Peirce score returned
    heidke,              \* None or the Heidke score returned
    gerrity              \* None or the Gerrity score returned

engine_vars == <<variable_names, nimportant_vars, scoring_strategy, result_obj,
                 important_vars, round, selection_iterator, in_call, result,
                 pc, error>>

metrics_vars == <<truths, predictions, classes, called, outcome, table, peirce,
                  heidke, gerrity>>

vars == <<engine_vars, metrics_vars>>

num_vars == Len(variable_names)

\* Inputs: the column count of the data and the optional variable_names.
NameInputs ==
    {<<n, None>> : n \in 1..MaxVars}
      \cup {<<Len(s), Some(s)>> : s \in SeqsUpTo(Names, MaxVars) \ {<<>>}}
      \cup {<<Len(ExampleNames), Some(ExampleNames)>>}

\* nimportant_vars as given: None or a count up to one more than the names.
NimportantInputs(m) == {None} \cup {Some(n) : n \in 0..(m + 1)}

EngineInit ==
    /\ \E inp \in NameInputs :
          variable_names = determine_variable_names(inp[1], inp[2])
    /\ \E n \in NimportantInputs(Len(variable_names)) :
          nimportant_vars = IF n = None THEN Len(variable_names) ELSE n[1]
    /\ scoring_strategy \in VALID_SCORING_STRATEGIES
    /\ result_obj = <<>>
    /\ important_vars = <<>>
    /\ round = 0
    /\ selection_iterator = <<>>
    /\ in_call = None
    /\ result = <<>>
    /\ pc = "Loop"
    /\ error = "none"

\* range(nimportant_vars) issued too few iterations by one.
LoopContinues_short == round < nimportant_vars - 1

\* for _ in range(nimportant_vars): another iteration follows.
LoopContinues == round < nimportant_vars

\* The loop body starts: _singlethread_iteration is entered with the
\* candidates of selection_strategy(num_vars, important_vars).
StartRound ==
    /\ pc = "Loop"
    /\ LoopContinues
    /\ selection_iterator' = sfs_strategy(num_vars, important_vars)
    /\ result' = <<>>
    /\ pc' = "RoundRunning"
    /\ UNCHANGED <<variable_names, nimportant_vars, scoring_strategy, result_obj,
                   important_vars, round, in_call, error>>

\* for var, column_indices in selection_iterator: call scoring_fn.
CallScoringFn ==
    /\ pc = "RoundRunning"
    /\ in_call = None
    /\ selection_iterator # <<>>
    /\ in_call' = Some(Head(selection_iterator)[1])
    /\ selection_iterator' = Tail(selection_iterator)
    /\ UNCHANGED <<variable_names, nimportant_vars, scoring_strategy, result_obj,
                   important_vars, round, result, pc, error>>

\* scoring_fn returns a score: result.append((var, score)).
ScoringFnReturns ==
    /\ pc = "RoundRunning"
    /\ in_call # None
    /\ \E score \in Scores : result' = Append(result, <<in_call[1], score>>)
    /\ in_call' = None
    /\ UNCHANGED <<variable_names, nimportant_vars, scoring_strategy, result_obj,
                   important_vars, round, selection_iterator, pc, error>>

\* The exception is swallowed and the loop goes on to the next candidate.
ScoringFnRaises_swallowed ==
    /\ pc = "RoundRunning"
    /\ in_call # None
    /\ in_call' = None
    /\ error' = "scoring_fn"
    /\ UNCHANGED <<variable_names, nimportant_vars, scoring_strategy, result_obj,
                   important_vars, round, selection_iterator, result, pc>>

\* scoring_fn raises: nothing catches it, the run ends with the exception
\* (in_call keeps naming the call that raised).
ScoringFnRaises ==
    /\ pc = "RoundRunning"
    /\ in_call # None
    /\ pc' = "Failed"
    /\ error' = "scoring_fn"
    /\ UNCHANGED <<variable_names, nimportant_vars, scoring_strategy, result_obj,
                   important_vars, round, selection_iterator, in_call, result>>

next_result == convert_result_list_to_dict(result, variable_names, scoring_strategy)

\* _singlethread_iteration has returned its list: the iterator is used up
\* and no call is in flight.
RoundScored ==
    /\ pc = "RoundRunning"
    /\ in_call = None
    /\ selection_iterator = <<>>

\* min() finds a key to return.
CanCommit == RoundScored /\ next_result # <<>>

\* max instead of min: the key of greatest rank.
best_var_of_max(d) ==
    LET i == CHOOSE i \in 1..Len(d) : \A j \in 1..Len(d) : d[i][2][1] >= d[j][2][1]
    IN d[i][1]

\* min(next_result.keys(), key=lambda key: next_result[key][0]): the first
\* key, in dict order, of least rank.
best_var_of(d) ==
    LET i == CHOOSE i \in 1..Len(d) :
                 /\ \A j \in 1..Len(d) : d[i][2][1] <= d[j][2][1]
                 /\ \A j \in 1..(i - 1) : d[j][2][1] # d[i][2][1]
    IN d[i][1]

\* The comparison inverted: the first index whose name differs.
best_index_of_inverted(names, best) ==
    IF \A i \in 1..Len(names) : names[i] = best THEN 0
    ELSE (CHOOSE i \in 1..Len(names) :
              /\ names[i] # best
              /\ \A j \in 1..(i - 1) : names[j] = best) - 1

\* np.flatnonzero(variable_names == best_var)[0]
best_index_of(names, best) ==
    (CHOOSE i \in 1..Len(names) :
        /\ names[i] = best
        /\ \A j \in 1..(i - 1) : names[j] # best) - 1

\* The list is returned from inside the loop: the winner is resolved from
\* whatever has been scored so far.
CommitRound_early ==
    /\ pc = "RoundRunning"
    /\ in_call = None
    /\ next_result # <<>>
    /\ LET best_var == best_var_of(next_result)
           best_index == best_index_of(variable_names, best_var)
       IN /\ result_obj' = add_new_results(result_obj, next_result, best_var)
          /\ important_vars' = Append(important_vars, best_index)
    /\ round' = round + 1
    /\ pc' = "Loop"
    /\ UNCHANGED <<variable_names, nimportant_vars, scoring_strategy,
                   selection_iterator, in_call, result, error>>

\* The round's list is complete: resolve the winner and commit it.
CommitRound ==
    /\ CanCommit
    /\ LET best_var == best_var_of(next_result)
           best_index == best_index_of(variable_names, best_var)
       IN /\ result_obj' = add_new_results(result_obj, next_result, best_var)
          /\ important_vars' = Append(important_vars, best_index)
    /\ round' = round + 1
    /\ pc' = "Loop"
    /\ UNCHANGED <<variable_names, nimportant_vars, scoring_strategy,
                   selection_iterator, in_call, result, error>>

\* min() of an empty dict raises ValueError.
CommitRaises ==
    /\ RoundScored
    /\ ~CanCommit
    /\ pc' = "Failed"
    /\ error' = "ValueError"
    /\ UNCHANGED <<variable_names, nimportant_vars, scoring_strategy, result_obj,
                   important_vars, round, selection_iterator, in_call, result>>

\* return result_obj
Return ==
    /\ pc = "Loop"
    /\ ~LoopContinues
    /\ pc' = "Done"
    /\ UNCHANGED <<variable_names, nimportant_vars, scoring_strategy, result_obj,
                   important_vars, round, selection_iterator, in_call, result,
                   error>>

MetricsIdle ==
    /\ truths = Arr1(<<>>)
    /\ predictions = Arr1(<<>>)
    /\ classes = None
    /\ called = ""
    /\ outcome = "pending"
    /\ table = <<>>
    /\ peirce = None
    /\ heidke = None
    /\ gerrity = None

EngineIdle ==
    /\ variable_names = <<>>
    /\ nimportant_vars = 0
    /\ scoring_strategy = "argmax"
    /\ result_obj = <<>>
    /\ important_vars = <<>>
    /\ round = 0
    /\ selection_iterator = <<>>
    /\ in_call = None
    /\ result = <<>>
    /\ pc = "Idle"
    /\ error = "none"

Init == EngineInit /\ MetricsIdle

Next ==
    \/ StartRound /\ UNCHANGED metrics_vars
    \/ CallScoringFn /\ UNCHANGED metrics_vars
    \/ ScoringFnReturns /\ UNCHANGED metrics_vars
    \/ ScoringFnRaises /\ UNCHANGED metrics_vars
    \/ CommitRound /\ UNCHANGED metrics_vars
    \/ CommitRaises /\ UNCHANGED metrics_vars
    \/ Return /\ UNCHANGED metrics_vars

Spec == Init /\ [][Next]_vars

\* ------------------------------------------------------------------------
\* Properties of sequential_selection
\* ------------------------------------------------------------------------

ResultVars(res) == [k \in 1..Len(res) |-> res[k][1]]

\* Candidates of the round being scored: scored, in flight, still to come.
RoundCandidates ==
    ResultVars(result) \o in_call
        \o [k \in 1..Len(selection_iterator) |-> selection_iterator[k][1]]

SeqRange(s) == {s[k] : k \in 1..Len(s)}

NamesOfIndices(idx) == [k \in 1..Len(idx) |-> variable_names[idx[k] + 1]]

C1_Body ==
    /\ Len(important_vars) = round
    /\ Len(result_obj) = round
    /\ \A k \in 1..Len(important_vars) : important_vars[k] \in 0..(num_vars - 1)
    /\ ImportantNames(result_obj) = NamesOfIndices(important_vars)
    /\ NoDuplicates(important_vars)
    /\ NoDuplicates(ImportantNames(result_obj))
    /\ pc = "RoundRunning" =>
          /\ Len(RoundCandidates) = num_vars - round
          /\ NoDuplicates(RoundCandidates)
          /\ SeqRange(RoundCandidates) \cap SeqRange(important_vars) = {}
    /\ (pc \in {"Loop", "Done"} /\ round > 0) =>
          Len(result) = num_vars - (round - 1)

\* C1 (as amended): over m variables with pairwise distinct names and
\* nimportant_vars <= m, the important-variable sequence (the indices the
\* engine keeps and the names the ledger records) has one element per
\* committed round and no duplicate, and the candidates scored in round r
\* are exactly m - r variables, none of them committed already.
C1_DistinctNames ==
    (NoDuplicates(variable_names) /\ nimportant_vars <= num_vars) => C1_Body

\* C1 (as claimed): the same for any variable_names list.
C1_AnyNames == (nimportant_vars <= num_vars) => C1_Body

C1_Witness ==
    /\ NoDuplicates(variable_names)
    /\ num_vars = 3
    /\ nimportant_vars = 3
    /\ round = 2
    /\ pc = "RoundRunning"
    /\ Len(RoundCandidates) = 1
    /\ Len(important_vars) = 2

C2_Safety ==
    /\ error \in {"none", "scoring_fn"}
    /\ round <= nimportant_vars
    /\ Len(result_obj) = round
    /\ pc = "Failed" => error = "scoring_fn"
    /\ pc = "Done" => (error = "none" /\ Len(result_obj) = nimportant_vars)

\* Work left in the run: rounds still to commit, then the candidates still
\* to score in the round (a call in flight counts one step, as does the
\* commit); 0 once the run has ended.
Measure ==
    IF pc \in {"Done", "Failed"} THEN 0
    ELSE (nimportant_vars - round) * (2 * num_vars + 4)
           + (IF pc = "Loop" THEN 2 * num_vars + 3
              ELSE 2 * Len(selection_iterator) + Len(in_call) + 1)

\* C2 (as amended): for 0 <= nimportant_vars <= m (m when not given), the
\* run fails only by a raising scoring callback and, short of that, always
\* has a next step until it is Done, every step using up work that is left;
\* at Done exactly nimportant_vars rounds have been committed.
C2_BoundedRounds ==
    /\ [](nimportant_vars <= num_vars =>
             /\ C2_Safety
             /\ Measure >= 0
             /\ pc \notin {"Done", "Failed"} =>
                   \/ ENABLED (StartRound \/ CallScoringFn \/ ScoringFnReturns \/ Return)
                   \/ CanCommit)
    /\ [][Measure' < Measure]_vars

\* C2 (as claimed): for every nimportant_vars a run in which no scoring
\* callback raises does not fail, and returns with nimportant_vars rounds.
C2_EveryCount ==
    (error # "scoring_fn") =>
        /\ pc # "Failed"
        /\ pc = "Done" => Len(result_obj) = nimportant_vars

C2_Witness ==
    /\ pc = "Done"
    /\ num_vars = 3
    /\ nimportant_vars = 2
    /\ Len(result_obj) = 2

Better(strategy, a, b) == IF strategy = "argmax" THEN a > b ELSE a < b

\* The winner among (var, score) pairs: no pair scores better, and a pair
\* scoring the same has no lower index.
IsWinner(v, res, strategy) ==
    \E k \in 1..Len(res) :
        /\ res[k][1] = v
        /\ \A j \in 1..Len(res) :
              /\ ~Better(strategy, res[j][2], res[k][2])
              /\ res[j][2] = res[k][2] => res[k][1] <= res[j][1]

ExampleScore(name) == IF name = "A" THEN 9 ELSE IF name = "B" THEN 5 ELSE 7

\* Every score the ledger recorded is the example's fixed score of its name.
LedgerFollowsExample ==
    \A r \in 1..Len(result_obj) :
        \A k \in 1..Len(result_obj[r].results) :
            result_obj[r].results[k][2][2] = ExampleScore(result_obj[r].results[k][1])

C3_Body ==
    /\ (pc \in {"Loop", "Done"} /\ round > 0) =>
          IsWinner(important_vars[Len(important_vars)], result, scoring_strategy)
    /\ \A r \in 1..Len(result_obj) :
          LET d == result_obj[r].results
              w == result_obj[r].next_important_variable
          IN /\ DictHas(d, w)
             /\ \A k \in 1..Len(d) :
                   /\ ~Better(scoring_strategy, d[k][2][2], DictGet(d, w)[2])
                   /\ d[k][2][2] = DictGet(d, w)[2] =>
                         best_index_of(variable_names, w)
                             <= best_index_of(variable_names, d[k][1])
    /\ ( /\ variable_names = ExampleNames
         /\ scoring_strategy = "argmax"
         /\ nimportant_vars = 2
         /\ pc = "Done"
         /\ LedgerFollowsExample ) =>
          ImportantNames(result_obj) = <<"A", "C">>

\* C3 (as amended): with pairwise distinct variable names, the winner
\* committed in each round is the candidate with the best score under the
\* strategy, the lowest index among equal best scores; and the example run
\* {A:0.9, B:0.5, C:0.7}, argmax, two rounds, yields [A, C].
C3_DistinctNames == NoDuplicates(variable_names) => C3_Body

\* C3 (as claimed): the same in every round of every run.
C3_EveryRun == C3_Body

\* A committed round with two equal best scores.
C3_Witness ==
    /\ variable_names = ExampleNames
    /\ scoring_strategy = "argmax"
    /\ pc = "Loop"
    /\ round = 1
    /\ result = <<<<0, 7>>, <<1, 9>>, <<2, 9>>>>
    /\ important_vars = <<1>>

Uncommitted == {v \in 0..(num_vars - 1) : v \notin SeqRange(important_vars)}

\* C9: a scoring call starts only when none is in flight, for a candidate
\* not yet scored in the round, over the columns of the committed variables
\* plus the candidate, with every earlier round committed; the ledger and
\* the important sequence change only in a commit, which happens when every
\* uncommitted variable has been scored exactly once and no call is in
\* flight; while a round is being scored neither changes.
C9_RoundBarrier ==
    [][ /\ (in_call' # None /\ in_call' # in_call) =>
              /\ in_call = None
              /\ pc = "RoundRunning"
              /\ in_call'[1] \notin SeqRange(ResultVars(result))
              /\ in_call'[1] \in Uncommitted
              /\ Head(selection_iterator)[2] = important_vars \o in_call'
              /\ Len(result_obj) = round
              /\ Len(important_vars) = round
        /\ (result_obj' # result_obj \/ important_vars' # important_vars) =>
              /\ in_call = None
              /\ selection_iterator = <<>>
              /\ \A v \in Uncommitted :
                    Cardinality({k \in 1..Len(result) : result[k][1] = v}) = 1
              /\ Len(result) = Cardinality(Uncommitted)
              /\ Len(result_obj') = Len(result_obj) + 1
              /\ Len(important_vars') = Len(important_vars) + 1
        /\ (pc = "RoundRunning" /\ pc' = "RoundRunning") =>
              UNCHANGED <<result_obj, important_vars>>
      ]_vars

\* A call of round 1 is in flight after round 0 was committed.
C9_Witness ==
    /\ round = 1
    /\ Len(result_obj) = 1
    /\ in_call # None
    /\ Len(result) = 1
    /\ num_vars = 3

\* C10: once the scoring callback has raised, the run has failed and takes
\* no further step; the ledger and the important sequence hold exactly the
\* rounds committed before the failing round, whose candidate is not
\* recorded, and nothing is returned.
C10_FailurePropagates ==
    (error = "scoring_fn") =>
        /\ pc = "Failed"
        /\ ~ENABLED Next
        /\ round < nimportant_vars
        /\ Len(result_obj) = round
        /\ Len(important_vars) = round
        /\ in_call # None
        /\ in_call[1] \notin SeqRange(ResultVars(result))

\* The callback raised on the second candidate of round 1.
C10_Witness ==
    /\ error = "scoring_fn"
    /\ pc = "Failed"
    /\ round = 1
    /\ Len(result) = 1
    /\ Len(result_obj) = 1

\* ------------------------------------------------------------------------
\* Calls of the metrics functions
\* ------------------------------------------------------------------------

Arrays1 == {Arr1(d) : d \in SeqsUpTo(Labels, MaxSamples)}

Arrays2 ==
    UNION {{Arr2(w, rows) : rows \in SeqsUpTo([1..w -> Probs], MaxSamples)} : w \in Widths}

\* classes: not given, or a listing as long as a class axis is wide.
ClassesInputs ==
    {None} \cup UNION {{Some(c) : c \in [1..w -> Labels]} : w \in Widths}

\* The specification's examples: the 2 x 2 table, and truths of 5 samples
\* against probabilistic predictions of 4 with no classes given.
ExampleTruths == Arr1(<<0, 0, 1, 1>>)

ExamplePredictions == Arr1(<<0, 1, 1, 1>>)

ExampleClasses == Some(<<0, 1>>)

FiveTruths == Arr1(<<0, 1, 0, 1, 1>>)

FourPredictions == Arr2(2, <<<<1, 0>>, <<0, 1>>, <<0, 1>>, <<1, 0>>>>)

TableInit ==
    /\ EngineIdle
    /\ \/ /\ truths \in Arrays1 \cup {FiveTruths}
          /\ predictions \in Arrays1
          /\ classes \in ClassesInputs
       \/ /\ truths \in Arrays1 \cup {FiveTruths}
          /\ predictions \in Arrays2 \cup {FourPredictions}
          /\ classes \in ClassesInputs
       \/ /\ truths \in Arrays2
          /\ predictions \in Arrays1
          /\ classes \in ClassesInputs
       \/ /\ truths \in Arrays2
          /\ predictions \in Arrays2 \cup {FourPredictions}
          /\ classes \in ClassesInputs
       \/ /\ truths = ExampleTruths
          /\ predictions = ExamplePredictions
          /\ classes \in {None, ExampleClasses}
    /\ called = ""
    /\ outcome = "pending"
    /\ table = <<>>
    /\ peirce = None
    /\ heidke = None
    /\ gerrity = None

\* _get_contingency_table(truths, predictions, classes) called by itself
Call_get_contingency_table ==
    /\ called = ""
    /\ called' = "_get_contingency_table"
    /\ LET r == get_contingency_table(truths, predictions, classes)
       IN /\ outcome' = r.outcome
          /\ table' = r.table
    /\ UNCHANGED <<truths, predictions, classes, peirce, heidke, gerrity>>
    /\ UNCHANGED engine_vars

\* gerrity_score(truths, predictions, classes)
Call_gerrity_score ==
    /\ called = ""
    /\ called' = "gerrity_score"
    /\ LET r == get_contingency_table(truths, predictions, classes)
       IN /\ outcome' = r.outcome
          /\ table' = r.table
          /\ gerrity' = IF r.outcome = "table"
                        THEN Some(gerrity_score_of(r.table)) ELSE None
    /\ UNCHANGED <<truths, predictions, classes, peirce, heidke>>
    /\ UNCHANGED engine_vars

\* peirce_skill_score(truths, predictions, classes)
Call_peirce_skill_score ==
    /\ called = ""
    /\ called' = "peirce_skill_score"
    /\ LET r == get_contingency_table(truths, predictions, classes)
       IN /\ outcome' = r.outcome
          /\ table' = r.table
          /\ peirce' = IF r.outcome = "table"
                       THEN Some(peirce_skill_score(r.table)) ELSE None
    /\ UNCHANGED <<truths, predictions, classes, heidke, gerrity>>
    /\ UNCHANGED engine_vars

\* heidke_skill_score(truths, predictions, classes)
Call_heidke_skill_score ==
    /\ called = ""
    /\ called' = "heidke_skill_score"
    /\ LET r == get_contingency_table(truths, predictions, classes)
       IN /\ outcome' = r.outcome
          /\ table' = r.table
          /\ heidke' = IF r.outcome = "table"
                       THEN Some(heidke_skill_score(r.table)) ELSE None
    /\ UNCHANGED <<truths, predictions, classes, peirce, gerrity>>
    /\ UNCHANGED engine_vars

TableNext ==
    \/ Call_get_contingency_table
    \/ Call_gerrity_score
    \/ Call_peirce_skill_score
    \/ Call_heidke_skill_score

SpecTable == TableInit /\ [][TableNext]_vars

\* Tables handed to the scores directly: every 1 x 1 and 2 x 2 table of
\* cells up to MaxCell, and for larger k the tables with any diagonal and
\* one common value, 0 or 1, off the diagonal.
SquareTables(k) == [1..k -> [1..k -> 0..MaxCell]]

NearDiagonalTables(k) ==
    {[i \in 1..k |-> [j \in 1..k |-> IF i = j THEN d[i] ELSE e]] :
        d \in [1..k -> 0..MaxCell], e \in {0, 1}}

TableInputs ==
    SquareTables(1) \cup SquareTables(2)
        \cup UNION {NearDiagonalTables(k) : k \in 3..MaxK}

ScoresInit ==
    /\ EngineIdle
    /\ truths = Arr1(<<>>)
    /\ predictions = Arr1(<<>>)
    /\ classes = None
    /\ called = "direct"
    /\ outcome = "table"
    /\ table \in TableInputs
    /\ peirce = None
    /\ heidke = None
    /\ gerrity = None

Apply_peirce_skill_score ==
    /\ called = "direct"
    /\ peirce = None
    /\ peirce' = Some(peirce_skill_score(table))
    /\ UNCHANGED <<truths, predictions, classes, called, outcome, table, heidke,
                   gerrity>>
    /\ UNCHANGED engine_vars

Apply_heidke_skill_score ==
    /\ called = "direct"
    /\ heidke = None
    /\ heidke' = Some(heidke_skill_score(table))
    /\ UNCHANGED <<truths, predictions, classes, called, outcome, table, peirce,
                   gerrity>>
    /\ UNCHANGED engine_vars

Apply_gerrity_score ==
    /\ called = "direct"
    /\ gerrity = None
    /\ gerrity' = Some(gerrity_score_of(table))
    /\ UNCHANGED <<truths, predictions, classes, called, outcome, table, peirce,
                   heidke>>
    /\ UNCHANGED engine_vars

ScoresNext ==
    \/ Apply_peirce_skill_score
    \/ Apply_heidke_skill_score
    \/ Apply_gerrity_score

SpecScores == ScoresInit /\ [][ScoresNext]_vars

\* ------------------------------------------------------------------------
\* Properties of the metrics
\* ------------------------------------------------------------------------

TableMade == outcome = "table" /\ called \notin {"", "direct"}

Samples == 1..Len(truths.data)

\* The labels the deterministic branch compares with classes.
HardPredictions ==
    IF predictions.dim = 2 THEN TakeClasses(classes, predictions) ELSE predictions.data

\* classes, where it is used, lists each label once and lists every truth
\* and prediction label.
ClassesCover ==
    \/ truths.dim = 2
    \/ classes = None
    \/ /\ NoDuplicates(classes[1])
       /\ \A s \in Samples :
             /\ truths.data[s] \in SeqRange(classes[1])
             /\ HardPredictions[s] \in SeqRange(classes[1])

C4_Body ==
    /\ \A i, j \in 1..Len(table) : table[i][j] >= 0
    /\ TableSum(table) = Len(truths.data)

ClassesUsed ==
    IF classes # None THEN classes[1]
    ELSE SortedSeq({truths.data[s] : s \in Samples}
                     \cup {predictions.data[s] : s \in Samples})

C6_LengthCheckFirst ==
    (called # "" /\ called # "direct" /\ Len(truths.data) # Len(predictions.data)) =>
        /\ outcome = "UnmatchedLengthPredictions"
        /\ table = <<>>
        /\ peirce = None
        /\ heidke = None
        /\ gerrity = None

\* Five truths against four probabilistic predictions, no classes: the
\* length error, not the ambiguous-forecast error.
C6_Witness ==
    /\ called = "gerrity_score"
    /\ Len(truths.data) = 5
    /\ Len(predictions.data) = 4
    /\ truths.dim = 1
    /\ predictions.dim = 2
    /\ classes = None
    /\ outcome = "UnmatchedLengthPredictions"

\* C7: for a 2 x 2 table with both column totals nonzero, the Gerrity and
\* Peirce scores are the same rational number.
C7_GerrityIsPeirce ==
    ( /\ called = "direct"
      /\ Len(table) = 2
      /\ \A j \in 1..2 : SumAxis0(table)[j] > 0
      /\ gerrity # None
      /\ peirce # None ) =>
        REq(gerrity[1], peirce[1])

C7_Witness ==
    /\ called = "direct"
    /\ table = <<<<1, 0>>, <<1, 2>>>>
    /\ gerrity = Some(RVal(1, 2))
    /\ peirce = Some(RVal(1, 2))

IsPerfect(t) ==
    /\ Len(t) >= 2
    /\ \A i, j \in 1..Len(t) : IF i = j THEN t[i][j] > 0 ELSE t[i][j] = 0

\* C8: on a k x k table, k >= 2, with nonzero diagonal and zero elsewhere,
\* the Peirce and Heidke scores are exactly 1.
C8_PerfectScoresOne ==
    (called = "direct" /\ IsPerfect(table)) =>
        /\ peirce # None => peirce[1] = RInt(1)
        /\ heidke # None => heidke[1] = RInt(1)

C8_Witness ==
    /\ called = "direct"
    /\ Len(table) = 3
    /\ IsPerfect(table)
    /\ peirce = Some(RInt(1))
    /\ heidke = Some(RInt(1))

====
